---- MODULE Spec2Model ----
(***************************************************************************)
(* MXU built-in custom actions (src-tauri/src/mxu_actions.rs): the seven   *)
(* callbacks registered with the engine, the catch_unwind wrapper around   *)
(* each of them, the 200 ms polling wait, and the WaitUntil deadline       *)
(* resolution against local wall-clock time.                               *)
(*                                                                         *)
(* Time is in milliseconds.  Strings are tuples of one-character strings.  *)
(* An Option is a tuple of length 0 (None) or 1 (Some).                    *)
(***************************************************************************)
EXTENDS Integers, Sequences, FiniteSets, TLC

(***************************************************************************)
(* Program constants                                                       *)
(***************************************************************************)
STEP == 200
MsPerSec == 1000
DefaultSleepSecs == 5
HourLimit == 24
MinuteLimit == 60
DayMs == 86400000
HourMs == 3600000
MinuteMs == 60000

(***************************************************************************)
(* Bounds of the model                                                     *)
(***************************************************************************)
\* the clock advances in chunks of at most TickMs while the thread sleeps
TickMs == 100
\* largest sleep_time the engine passes explicitly
MaxSleepSecs == 1
\* WaitUntil invocations are explored when the resolved wait is at most this
MaxWaitSecs == 1
\* number of faults injected into action implementations
MaxPanics == 1
MaxVcOps == 5

(***************************************************************************)
(* Options and strings                                                     *)
(***************************************************************************)
None == <<>>
Some(x) == <<x>>
IsSome(o) == o # <<>>
UnwrapOr(o, d) == IF o = <<>> THEN d ELSE o[1]

Whitespace == {" ", "\t"}
\* str::trim().is_empty()
TrimIsEmpty(s) == \A i \in 1..Len(s) : s[i] \in Whitespace

Digits == {"0", "1", "2", "3", "4", "5", "6", "7", "8", "9"}
DigitVal(c) ==
    CASE c = "0" -> 0 [] c = "1" -> 1 [] c = "2" -> 2 [] c = "3" -> 3
      [] c = "4" -> 4 [] c = "5" -> 5 [] c = "6" -> 6 [] c = "7" -> 7
      [] c = "8" -> 8 [] c = "9" -> 9

RECURSIVE DecimalValue(_)
DecimalValue(s) ==
    IF s = <<>> THEN 0
    ELSE 10 * DecimalValue(SubSeq(s, 1, Len(s) - 1)) + DigitVal(s[Len(s)])

\* <u32 as FromStr>::from_str: an optional leading '+', then one or more
\* ASCII digits; no whitespace, no sign alone.  (The strings of the model
\* are short, so the value always fits 32 bits.)
ParseU32(s) ==
    LET body == IF Len(s) > 0 /\ s[1] = "+" THEN Tail(s) ELSE s
    IN  IF Len(body) = 0 \/ \E i \in 1..Len(body) : body[i] \notin Digits
        THEN None
        ELSE Some(DecimalValue(body))

\* str::split(':').collect(): the fields between the colons (always >= 1)
RECURSIVE SplitColon(_)
SplitColon(s) ==
    IF \A i \in 1..Len(s) : s[i] # ":"
    THEN <<s>>
    ELSE LET k == CHOOSE i \in 1..Len(s) :
                      s[i] = ":" /\ \A j \in 1..(i - 1) : s[j] # ":"
         IN  <<SubSeq(s, 1, k - 1)>> \o SplitColon(SubSeq(s, k + 1, Len(s)))

(***************************************************************************)
(* JSON payloads (serde_json::Value)                                       *)
(***************************************************************************)
JAbsent == [t |-> "absent", b |-> FALSE, n |-> 0, s |-> <<>>]
JNull == [t |-> "null", b |-> FALSE, n |-> 0, s |-> <<>>]
JBool(x) == [t |-> "bool", b |-> x, n |-> 0, s |-> <<>>]
JNum(x) == [t |-> "num", b |-> FALSE, n |-> x, s |-> <<>>]
JFloat == [t |-> "float", b |-> FALSE, n |-> 0, s |-> <<>>]
JStr(x) == [t |-> "str", b |-> FALSE, n |-> 0, s |-> x]
\* an array and an object as the value of a field
JArray == [t |-> "array", b |-> FALSE, n |-> 0, s |-> <<>>]
JObject == [t |-> "object", b |-> FALSE, n |-> 0, s |-> <<>>]

Keys == {"sleep_time", "target_time", "program", "args", "wait_for_exit",
         "skip_if_running", "url", "title", "body", "kill_self",
         "process_name", "power_action", "extra"}

NoFields == [k \in Keys |-> JAbsent]
\* text that serde_json::from_str rejects
Malformed == [kind |-> "malformed", f |-> NoFields]
\* valid JSON that is not an object (5, [], "x"): Value::get gives None
NonObject == [kind |-> "nonobj", f |-> NoFields]
Obj(fields) == [kind |-> "obj", f |-> fields]
With(p, k, v) == [p EXCEPT !.f[k] = v]

\* mutant: the parse error is ignored
ParsesAsJsonAlways(p) == TRUE
\* serde_json::from_str::<Value>(param).is_ok()
ParsesAsJson(p) == p.kind # "malformed"
\* Value::get(key)
Get(p, k) == IF p.kind = "obj" THEN p.f[k] ELSE JAbsent
\* Value::as_str / as_bool / as_u64
as_str(v) == IF v.t = "str" THEN Some(v.s) ELSE None
as_bool(v) == IF v.t = "bool" THEN Some(v.b) ELSE None
as_u64(v) == IF v.t = "num" /\ v.n >= 0 THEN Some(v.n) ELSE None

(***************************************************************************)
(* Local time (chrono::Local): a zone is an offset before and after one    *)
(* transition instant.  Instants are ms since midnight UTC of day 0.       *)
(***************************************************************************)
TzFixed == [before |-> 0, after |-> 0, at |-> 0]
\* clocks go forward one hour at 02:00 local of day 1 (02:00..02:59 missing)
TzSpring == [before |-> 0, after |-> HourMs, at |-> DayMs + 2 * HourMs]
\* clocks go back one hour at 03:00 local of day 1 (02:00..02:59 twice)
TzFall == [before |-> HourMs, after |-> 0, at |-> DayMs + 2 * HourMs]
TzScenarios == {TzFixed, TzSpring, TzFall}

OffsetAt(tz, u) == IF u < tz.at THEN tz.before ELSE tz.after
\* DateTime<Local>::naive_local
NaiveLocal(tz, u) == u + OffsetAt(tz, u)
\* NaiveDateTime::date (as a day number) and NaiveDate::and_hms_opt(h, m, 0)
DateNaive(naive) == naive \div DayMs
AndHms(day, h, m) == day * DayMs + h * HourMs + m * MinuteMs
\* TimeZone::from_local_datetime: the instants whose local time is `naive`
FromLocalDatetime(tz, naive) ==
    {u \in {naive - tz.before, naive - tz.after} : NaiveLocal(tz, u) = naive}
\* mutant: an ambiguous local time resolves to its later instant
SingleOrLatest(set) ==
    IF set = {} THEN None
    ELSE Some(CHOOSE u \in set : \A v \in set : v <= u)
\* LocalResult::single
Single(set) == IF Cardinality(set) = 1 THEN Some(CHOOSE u \in set : TRUE) ELSE None

(***************************************************************************)
(* Parameter decoding, one operator per let-binding of the handlers        *)
(***************************************************************************)
\* mutant: sleep_time is ignored
sleep_seconds_zero(p) == 0
\* mxu_sleep_action_fn: sleep_time, 5 when absent, not a u64 or bad JSON
sleep_seconds(p) ==
    IF ParsesAsJson(p)
    THEN UnwrapOr(as_u64(Get(p, "sleep_time")), DefaultSleepSecs)
    ELSE DefaultSleepSecs

\* mutant: only the empty string is rejected, not a blank one
RequiredStrUntrimmed(p, k) ==
    LET o == as_str(Get(p, k))
    IN  IF IsSome(o) /\ o[1] # <<>> THEN o ELSE None
\* a required string field: Some(s) when present, a string and not blank
RequiredStr(p, k) ==
    LET o == as_str(Get(p, k))
    IN  IF IsSome(o) /\ ~TrimIsEmpty(o[1]) THEN o ELSE None

\* mutant: the limits themselves are accepted
ParseTargetTimeLax(s) ==
    LET parts == SplitColon(s)
    IN  IF Len(parts) < 2 THEN None
        ELSE LET h == ParseU32(parts[1])
                 m == ParseU32(parts[2])
             IN  IF ~IsSome(h) \/ h[1] > HourLimit THEN None
                 ELSE IF ~IsSome(m) \/ m[1] > MinuteLimit THEN None
                 ELSE Some([hour |-> h[1], minute |-> m[1]])
\* mxu_waituntil_action_fn: "HH:MM" to hour and minute
ParseTargetTime(s) ==
    LET parts == SplitColon(s)
    IN  IF Len(parts) < 2 THEN None
        ELSE LET h == ParseU32(parts[1])
                 m == ParseU32(parts[2])
             IN  IF ~IsSome(h) \/ h[1] >= HourLimit THEN None
                 ELSE IF ~IsSome(m) \/ m[1] >= MinuteLimit THEN None
                 ELSE Some([hour |-> h[1], minute |-> m[1]])

\* mutant: a target that has passed is put off by two days
AddTwoDays(u) == u + 2 * DayMs
\* Duration::days(1) added to a DateTime<Local>: 86400 s on the time line
AddOneDay(u) == u + DayMs

\* mxu_waituntil_action_fn, from `let now` to `let wait_secs`: None when the
\* local time of today's target is missing or ambiguous
ResolveWait(tz, now, hm) ==
    LET naive == AndHms(DateNaive(NaiveLocal(tz, now)), hm.hour, hm.minute)
        today == Single(FromLocalDatetime(tz, naive))
    IN  IF ~IsSome(today) THEN None
        ELSE LET deadline == IF today[1] > now THEN today[1]
                             ELSE AddOneDay(today[1])
                 dur == deadline - now
                 secs == IF dur \div MsPerSec > 0 THEN dur \div MsPerSec ELSE 0
             IN  Some([naive |-> naive, today |-> today[1],
                       deadline |-> deadline, wait_secs |-> secs])

\* mxu_launch_action_fn
launch_args_str(p) == UnwrapOr(as_str(Get(p, "args")), <<>>)
\* shell_words::split: words are separated by blanks, quotes and backslashes
\* group and escape, '#' at the start of a word opens a comment; the only
\* error is a quote that is never closed.  (Inside double quotes a backslash
\* also escapes the backquote, a character the strings here never hold.)
RECURSIVE ShellWords(_, _, _, _, _)
ShellWords(s, i, st, word, words) ==
    IF i > Len(s)
    THEN CASE st \in {"Delimiter", "Comment"} -> Some(words)
           [] st = "Unquoted" -> Some(Append(words, word))
           [] st \in {"Backslash", "UnquotedBackslash"} ->
                  Some(Append(words, Append(word, "\\")))
           [] OTHER -> None
    ELSE LET c == s[i]
             go(st2, word2, words2) == ShellWords(s, i + 1, st2, word2, words2)
         IN  CASE st \in {"Delimiter", "Unquoted"} ->
                    IF c = "'" THEN go("SingleQuoted", word, words)
                    ELSE IF c = "\"" THEN go("DoubleQuoted", word, words)
                    ELSE IF c = "\\"
                    THEN go(IF st = "Delimiter" THEN "Backslash"
                            ELSE "UnquotedBackslash", word, words)
                    ELSE IF c \in {" ", "\t", "\n"}
                    THEN go("Delimiter", <<>>,
                            IF st = "Unquoted" THEN Append(words, word) ELSE words)
                    ELSE IF c = "#" /\ st = "Delimiter"
                    THEN go("Comment", word, words)
                    ELSE go("Unquoted", Append(word, c), words)
               [] st = "Backslash" ->
                    IF c = "\n" THEN go("Delimiter", word, words)
                    ELSE go("Unquoted", Append(word, c), words)
               [] st = "UnquotedBackslash" ->
                    IF c = "\n" THEN go("Unquoted", word, words)
                    ELSE go("Unquoted", Append(word, c), words)
               [] st = "SingleQuoted" ->
                    IF c = "'" THEN go("Unquoted", word, words)
                    ELSE go("SingleQuoted", Append(word, c), words)
               [] st = "DoubleQuoted" ->
                    IF c = "\"" THEN go("Unquoted", word, words)
                    ELSE IF c = "\\" THEN go("DoubleQuotedBackslash", word, words)
                    ELSE go("DoubleQuoted", Append(word, c), words)
               [] st = "DoubleQuotedBackslash" ->
                    IF c = "\n" THEN go("DoubleQuoted", word, words)
                    ELSE IF c \in {"$", "\"", "\\"}
                    THEN go("DoubleQuoted", Append(word, c), words)
                    ELSE go("DoubleQuoted", Append(Append(word, "\\"), c), words)
               [] st = "Comment" ->
                    IF c = "\n" THEN go("Delimiter", word, words)
                    ELSE go("Comment", word, words)
\* Ok(words) as Some(words), Err(ParseError) as None
ShellSplit(s) == ShellWords(s, 1, "Delimiter", <<>>, <<>>)

\* str::split_whitespace: the maximal runs of non-blank characters
RECURSIVE WhitespaceWords(_, _, _, _)
WhitespaceWords(s, i, word, words) ==
    IF i > Len(s)
    THEN IF word = <<>> THEN words ELSE Append(words, word)
    ELSE IF s[i] \in Whitespace
         THEN WhitespaceWords(s, i + 1, <<>>,
                              IF word = <<>> THEN words ELSE Append(words, word))
         ELSE WhitespaceWords(s, i + 1, Append(word, s[i]), words)
SplitWhitespace(s) == WhitespaceWords(s, 1, <<>>, <<>>)

\* mutant: a string the tokenizer rejects gives no arguments
launch_args_vec_drop(args_str) ==
    IF TrimIsEmpty(args_str) THEN <<>>
    ELSE LET parsed == ShellSplit(args_str)
         IN  IF IsSome(parsed) THEN parsed[1] ELSE <<>>
\* mxu_launch_action_fn: the argument list handed to Command::args
launch_args_vec(args_str) ==
    IF TrimIsEmpty(args_str) THEN <<>>
    ELSE LET parsed == ShellSplit(args_str)
         IN  IF IsSome(parsed) THEN parsed[1] ELSE SplitWhitespace(args_str)

launch_wait_for_exit(p) == UnwrapOr(as_bool(Get(p, "wait_for_exit")), FALSE)
\* mutant: the running check is made unless it is switched off
launch_skip_if_running_default_true(p) ==
    UnwrapOr(as_bool(Get(p, "skip_if_running")), TRUE)
launch_skip_if_running(p) == UnwrapOr(as_bool(Get(p, "skip_if_running")), FALSE)

\* mxu_notify_action_fn
NotifyDefaultTitle == <<"M", "X", "U">>
notify_title(p) == UnwrapOr(as_str(Get(p, "title")), NotifyDefaultTitle)
notify_body(p) == UnwrapOr(as_str(Get(p, "body")), <<>>)

\* mutant: process_name is the target unless kill_self is set
kill_self_default_false(p) == UnwrapOr(as_bool(Get(p, "kill_self")), FALSE)
\* mxu_killproc_action_fn
kill_self(p) == UnwrapOr(as_bool(Get(p, "kill_self")), TRUE)

\* mxu_power_action_fn
PowerShutdown == <<"s", "h", "u", "t", "d", "o", "w", "n">>
PowerRestart == <<"r", "e", "s", "t", "a", "r", "t">>
PowerScreenoff == <<"s", "c", "r", "e", "e", "n", "o", "f", "f">>
PowerSleep == <<"s", "l", "e", "e", "p">>
\* mutant: the default operation is the restart
power_action_default_restart(p) ==
    UnwrapOr(as_str(Get(p, "power_action")), PowerRestart)
\* mutant: a power_action that is present must be a string
power_action_strict(p) ==
    IF Get(p, "power_action") = JAbsent THEN PowerShutdown
    ELSE UnwrapOr(as_str(Get(p, "power_action")), <<>>)
power_action(p) == UnwrapOr(as_str(Get(p, "power_action")), PowerShutdown)

(***************************************************************************)
(* The platform calls of the handlers, as functions of their outcome       *)
(***************************************************************************)
Platforms == {"windows", "macos", "linux"}
\* outcome of running an external tool to completion (Command::output)
ToolOutcomes == {"spawn_err", "exit_zero", "exit_nonzero"}

\* one platform call: what was called, on what, with which arguments, and
\* what the platform answered
Effect(op, target, out) ==
    [op |-> op, target |-> target, args |-> <<>>, out |-> out]

\* mutant: pkill is also tried when killall could not be run
kill_process_by_name_eager(plat, name, k1, k2) ==
    IF plat = "windows"
    THEN [ok |-> (k1 = "exit_zero"), ran |-> <<Effect("taskkill", name, k1)>>]
    ELSE IF k1 = "exit_zero"
         THEN [ok |-> TRUE, ran |-> <<Effect("killall", name, k1)>>]
         ELSE [ok |-> (k2 = "exit_zero"),
               ran |-> <<Effect("killall", name, k1),
                         Effect("pkill", name, k2)>>]
\* kill_process_by_name: taskkill on Windows; killall, then pkill -f when
\* killall exited with a non-zero status, elsewhere
kill_process_by_name(plat, name, k1, k2) ==
    IF plat = "windows"
    THEN [ok |-> (k1 = "exit_zero"), ran |-> <<Effect("taskkill", name, k1)>>]
    ELSE IF k1 = "spawn_err"
         THEN [ok |-> FALSE, ran |-> <<Effect("killall", name, k1)>>]
         ELSE IF k1 = "exit_zero"
              THEN [ok |-> TRUE, ran |-> <<Effect("killall", name, k1)>>]
              ELSE [ok |-> (k2 = "exit_zero"),
                    ran |-> <<Effect("killall", name, k1),
                              Effect("pkill", name, k2)>>]

\* execute_power_shutdown / _restart / _screenoff / _sleep: one command is
\* spawned and the result is whether the spawn worked; the Windows screen-off
\* is a SendMessageW call that cannot fail
execute_power(plat, op, spawned) ==
    LET ok == IF plat = "windows" /\ op = "screenoff" THEN TRUE ELSE spawned
    IN  [ok |-> ok, ran |-> <<Effect(op, <<>>, IF ok THEN "ok" ELSE "err")>>]

\* mutant: an unknown operation falls back to the default one
PowerDispatchDefault(a) ==
    IF a = PowerRestart THEN Some("restart")
    ELSE IF a = PowerScreenoff THEN Some("screenoff")
    ELSE IF a = PowerSleep THEN Some("suspend")
    ELSE Some("shutdown")
\* the match of mxu_power_action_fn: the operation, or None when unknown
PowerDispatch(a) ==
    IF a = PowerShutdown THEN Some("shutdown")
    ELSE IF a = PowerRestart THEN Some("restart")
    ELSE IF a = PowerScreenoff THEN Some("screenoff")
    ELSE IF a = PowerSleep THEN Some("suspend")
    ELSE None

\* mutant: one flag for the whole process, set when any tasker is stopping
tasker_stopping_global(handle, signals) == \E h \in DOMAIN signals : signals[h]
\* Tasker::from_raw(tasker_ptr, false).stopping(): the signal of the tasker
\* the context's handle stands for
tasker_stopping(handle, signals) == signals[handle]

\* mutant: the flag is read and left as it is
vcredist_after_load(old) == old
\* VCREDIST_MISSING.swap(false, SeqCst): the value left behind
vcredist_after_swap(old) == FALSE

\* mutant: every check reads the signal as set
is_tasker_stopping_always(ctx, stop) == TRUE
\* mutant: without a usable tasker the wait is taken to be stopping
is_tasker_stopping_fail_closed(ctx, stop) ==
    IF ctx = "tasker" THEN stop ELSE TRUE
\* is_tasker_stopping: false for a null handle or one from_raw rejects
is_tasker_stopping(ctx, stop) ==
    IF ctx = "null" THEN FALSE
    ELSE IF ctx = "unusable" THEN FALSE
    ELSE stop

\* mutant: the query consumes the signal
signal_after_query_reset(ctx, stop) == IF ctx = "tasker" THEN FALSE ELSE stop
\* the signal once is_tasker_stopping has run: Tasker::from_raw(ptr, false)
\* does not own the handle and stopping() only reads it
signal_after_query(ctx, stop) == stop

\* mutant: the loop body runs once before the time is looked at
WaitContinuesAtLeastOnce(elapsed, tot) == elapsed < tot \/ elapsed = 0
\* mutant: the loop also runs when no time is left
WaitContinuesInclusive(elapsed, tot) == elapsed <= tot
\* while start.elapsed() < total
WaitContinues(elapsed, tot) == elapsed < tot
\* mutant: one sleep for all the remaining time, no poll step
SleepLengthUncapped(elapsed, tot) == IF tot > elapsed THEN tot - elapsed ELSE 0
\* mutant: every sleep is a whole poll step
SleepLengthWholeStep(elapsed, tot) == STEP
\* total.saturating_sub(start.elapsed()).min(STEP)
SleepLength(elapsed, tot) ==
    LET remain == IF tot > elapsed THEN tot - elapsed ELSE 0
    IN  IF remain < STEP THEN remain ELSE STEP

\* mutant: the outcome of the wait is ignored
waituntil_after_wait_ignored(completed) == "true"
\* what the two waiting handlers return after wait_with_stop_check
sleep_after_wait(completed) == IF completed THEN "true" ELSE "false"
waituntil_after_wait(completed) == IF completed THEN "true" ELSE "false"

\* mutant: a panic is reported as success
reg_action_wrapper_true(outcome) == IF outcome = "panic" THEN "true" ELSE outcome
\* mutant: no catch_unwind, the panic leaves the closure
reg_action_wrapper_rethrow(outcome) == outcome
\* the closure reg_action! registers: catch_unwind(...).unwrap_or_else(false)
reg_action_wrapper(outcome) == IF outcome = "panic" THEN "false" ELSE outcome

(***************************************************************************)
(* The five handlers that do not wait, as functions of the context, the    *)
(* payload and what the platform answers.  `ret` is the handler's bool, or *)
(* "blocked" while cmd.status() has not returned, or "exit" when the       *)
(* handler ends the process; `ran` are its platform calls in order.        *)
(***************************************************************************)
\* the &Context a handler is given: its tasker handle and that tasker's signal
Context(tasker, stop) == [tasker |-> tasker, stopping |-> stop]
Done(ret, ran) == [ret |-> ret, ran |-> ran]
OkErr(b) == IF b THEN "ok" ELSE "err"

\* mxu_launch_action_fn: `running` is check_process_running's answer and
\* `spawned` whether the OS started the process
mxu_launch_action_fn(ctx, p, running, spawned) ==
    LET program == IF ParsesAsJson(p) THEN RequiredStr(p, "program") ELSE None
    IN  IF ~IsSome(program) THEN Done("false", <<>>)
        ELSE LET skip == launch_skip_if_running(p)
                 query == IF skip
                          THEN <<Effect("is_running", program[1],
                                        IF running THEN "running" ELSE "absent")>>
                          ELSE <<>>
                 cmd(op) == [Effect(op, program[1], OkErr(spawned))
                                EXCEPT !.args = launch_args_vec(launch_args_str(p))]
             IN  IF skip /\ running THEN Done("true", query)
                 ELSE IF launch_wait_for_exit(p)
                 THEN Done(IF spawned THEN "blocked" ELSE "false",
                           query \o <<cmd("status")>>)
                 ELSE Done(IF spawned THEN "true" ELSE "false",
                           query \o <<cmd("spawn")>>)

\* how the process a blocked cmd.status() waits for has ended
ExitEvents == {"exit_0", "exit_1", "signal"}
\* mutant: cmd.status() also returns when the tasker is stopping
status_returns_on_stop(stop, ev) == ev \in ExitEvents \/ stop
\* cmd.status() returns when the process has ended, and not before
status_returns(stop, ev) == ev \in ExitEvents
\* mutant: a non-zero exit status is a failure
launch_status_result_by_code(ev) == IF ev = "exit_0" THEN "true" ELSE "false"
\* Ok(status) => true, whatever the exit status
launch_status_result(ev) == "true"

\* what the HTTP client answers to send()
SendOutcomes == {"transport_err", "status_2xx", "status_4xx", "status_5xx"}
\* mutant: only a 2xx status is a success
webhook_send_result_2xx(sent) == IF sent = "status_2xx" THEN "true" ELSE "false"
\* Ok(resp) => true, Err(e) => false
webhook_send_result(sent) == IF sent = "transport_err" THEN "false" ELSE "true"

\* mxu_webhook_action_fn: `built` is whether Client::builder().build() worked
mxu_webhook_action_fn(ctx, p, built, sent) ==
    LET url == IF ParsesAsJson(p) THEN RequiredStr(p, "url") ELSE None
    IN  IF ~IsSome(url) THEN Done("false", <<>>)
        ELSE IF ~built
        THEN Done("false", <<Effect("build_client", <<>>, "err")>>)
        ELSE Done(webhook_send_result(sent),
                  <<Effect("build_client", <<>>, "ok"),
                    Effect("http_get", url[1], sent)>>)

\* mxu_notify_action_fn
mxu_notify_action_fn(ctx, p, shown) ==
    IF ~ParsesAsJson(p) THEN Done("false", <<>>)
    ELSE Done(IF shown THEN "true" ELSE "false",
              <<Effect("notify", notify_title(p) \o notify_body(p),
                       OkErr(shown))>>)

\* the name mxu_killproc_action_fn kills: None is a parameter error
KillTarget(p, exe) ==
    IF kill_self(p) THEN exe ELSE RequiredStr(p, "process_name")

\* mxu_killproc_action_fn; `exe` is current_exe()'s file name, if any
mxu_killproc_action_fn(ctx, p, plat, exe, k1, k2) ==
    IF ~ParsesAsJson(p) THEN Done("false", <<>>)
    ELSE LET name == KillTarget(p, exe)
         IN  IF kill_self(p) /\ ~IsSome(name)
             THEN Done("exit", <<Effect("exit", <<>>, "none")>>)
             ELSE IF ~IsSome(name) THEN Done("false", <<>>)
             ELSE LET k == kill_process_by_name(plat, name[1], k1, k2)
                  IN  Done(IF k.ok THEN "true" ELSE "false", k.ran)

\* mxu_power_action_fn
mxu_power_action_fn(ctx, p, plat, spawned) ==
    IF ~ParsesAsJson(p) THEN Done("false", <<>>)
    ELSE LET op == PowerDispatch(power_action(p))
         IN  IF ~IsSome(op) THEN Done("false", <<>>)
             ELSE LET x == execute_power(plat, op[1], spawned)
                  IN  Done(IF x.ok THEN "true" ELSE "false", x.ran)

\* mutant: a registration error is handed to the caller
register_all_result_strict(failed) == IF failed > 0 THEN "Err" ELSE "Ok"
\* register_all_mxu_actions: Ok(()) whatever failed_count is
register_all_result(failed) == "Ok"

(***************************************************************************)
(* Action names and the payloads the engine passes                         *)
(***************************************************************************)
MXU_SLEEP_ACTION == "MXU_SLEEP_ACTION"
MXU_WAITUNTIL_ACTION == "MXU_WAITUNTIL_ACTION"
MXU_LAUNCH_ACTION == "MXU_LAUNCH_ACTION"
MXU_WEBHOOK_ACTION == "MXU_WEBHOOK_ACTION"
MXU_NOTIFY_ACTION == "MXU_NOTIFY_ACTION"
MXU_KILLPROC_ACTION == "MXU_KILLPROC_ACTION"
MXU_POWER_ACTION == "MXU_POWER_ACTION"
ActionNames == {MXU_SLEEP_ACTION, MXU_WAITUNTIL_ACTION, MXU_LAUNCH_ACTION,
                MXU_WEBHOOK_ACTION, MXU_NOTIFY_ACTION, MXU_KILLPROC_ACTION,
                MXU_POWER_ACTION}
WaitingActions == {MXU_SLEEP_ACTION, MXU_WAITUNTIL_ACTION}
\* the reg_action! calls of register_all_mxu_actions, in program order
RegOrder == <<MXU_SLEEP_ACTION, MXU_WAITUNTIL_ACTION, MXU_LAUNCH_ACTION,
              MXU_WEBHOOK_ACTION, MXU_NOTIFY_ACTION, MXU_KILLPROC_ACTION,
              MXU_POWER_ACTION>>

Empty == Obj(NoFields)
StrEmpty == <<>>
StrBlank == <<" ", "\t">>
StrApp == <<"a", "p", "p">>
\* file name of the running executable
StrExe == <<"m", "x", "u">>
StrUrl == <<"h", ":", "/", "/", "h">>
StrHibernate == <<"h", "i", "b", "e", "r", "n", "a", "t", "e">>
StrShutdownCaps == <<"S", "h", "u", "t", "d", "o", "w", "n">>
\* -n "a b"
StrArgsQuoted == <<"-", "n", " ", "\"", "a", " ", "b", "\"">>
\* "a b   (the quote is never closed)
StrArgsOpen == <<"\"", "a", " ", "b">>
\* a  b\
StrArgsPlain == <<"a", " ", " ", "b", "\\">>

AnyObjects(k, values) == {With(Empty, k, v) : v \in values}
WithExtra(ps) == ps \cup {With(p, "extra", JNum(1)) : p \in ps}

SleepParams ==
    {Malformed, NonObject, Empty}
    \cup AnyObjects("sleep_time", {JNum(n) : n \in 0..MaxSleepSecs}
                                   \cup {JNum(-1), JStr(<<"1">>)})

TargetStrings ==
    { <<"0", "8", ":", "0", "0">>, <<"0", "2", ":", "3", "0">>,
      <<"8", ":", "0">>, <<"0", "8", ":", "0", "0", ":", "3", "0">>,
      <<"+", "8", ":", "0", "0">>, <<"0", "8", "0", "0">>,
      <<"2", "4", ":", "0", "0">>, <<"0", "8", ":", "6", "0">>,
      <<"a", ":", "b">>, <<" ", "8", ":", "0", "0">>, <<":", "0", "0">>,
      <<"-", "1", ":", "0", "0">>, <<"0", "8", ":">>, <<"0", "8", ":", "+">>,
      StrEmpty, StrBlank }
WaitUntilParams ==
    {Malformed, NonObject}
    \cup WithExtra({Empty} \cup AnyObjects("target_time",
                        {JNum(8), JNull} \cup {JStr(t) : t \in TargetStrings}))

Flags == {JAbsent, JBool(TRUE), JBool(FALSE)}
LaunchParams ==
    {Malformed, NonObject}
    \cup WithExtra({ With(With(With(Empty, "program", prog),
                               "wait_for_exit", w), "skip_if_running", k) :
                       prog \in {JAbsent, JNum(1), JStr(StrEmpty),
                                 JStr(StrBlank), JStr(StrApp)},
                       w \in Flags, k \in Flags })
    \cup { With(With(With(Empty, "program", JStr(StrApp)), "wait_for_exit", w),
                 "args", a) :
               w \in {JAbsent, JBool(TRUE)},
               a \in {JNum(1), JStr(StrEmpty), JStr(StrBlank), JStr(StrArgsQuoted),
                      JStr(StrArgsOpen), JStr(StrArgsPlain)} }

WebhookParams ==
    {Malformed, NonObject}
    \cup WithExtra({Empty} \cup AnyObjects("url",
             {JNull, JStr(StrEmpty), JStr(StrBlank), JStr(StrUrl)}))

NotifyParams ==
    {Malformed, NonObject, Empty}
    \cup AnyObjects("title", {JStr(StrApp), JNum(1)})
    \cup AnyObjects("body", {JStr(StrApp)})

KillProcParams ==
    {Malformed, NonObject}
    \cup WithExtra({ With(With(Empty, "kill_self", ks), "process_name", pn) :
                       ks \in Flags \cup {JStr(StrApp)},
                       pn \in {JAbsent, JNum(1), JStr(StrEmpty), JStr(StrBlank),
                               JStr(StrApp), JStr(StrExe)} })

PowerParams ==
    {Malformed, NonObject, Empty}
    \cup AnyObjects("power_action",
             {JNum(1), JNull, JBool(TRUE), JArray, JObject}
             \cup {JStr(a) : a \in {PowerShutdown, PowerRestart, PowerScreenoff,
                                    PowerSleep, StrHibernate, StrShutdownCaps,
                                    StrEmpty}})

ParamsOf(name) ==
    CASE name = MXU_SLEEP_ACTION -> SleepParams
      [] name = MXU_WAITUNTIL_ACTION -> WaitUntilParams
      [] name = MXU_LAUNCH_ACTION -> LaunchParams
      [] name = MXU_WEBHOOK_ACTION -> WebhookParams
      [] name = MXU_NOTIFY_ACTION -> NotifyParams
      [] name = MXU_KILLPROC_ACTION -> KillProcParams
      [] name = MXU_POWER_ACTION -> PowerParams

\* local wall-clock instants at which WaitUntil is invoked
NowSamples ==
    { 8 * HourMs - 1500, 8 * HourMs - 500, 8 * HourMs,
      DayMs + HourMs, DayMs + 2 * HourMs + 30 * MinuteMs - 1000 }

(***************************************************************************)
(* State                                                                   *)
(***************************************************************************)
VARIABLES
    platform,    \* build target of the host (cfg(windows), cfg(macos), other)
    registered,  \* names the resource holds a custom action for
    failed_count,\* register_all_mxu_actions: failed_count
    sessions,    \* per engine session: its tasker's signal and its running wait
    VCREDIST_MISSING, \* the static AtomicBool of commands/system.rs
    vcHistory,   \* calls on VCREDIST_MISSING since it was last set
    stopping,    \* Tasker::stopping(), owned by the engine
    stopSetAt,   \* elapsed ms at which `stopping` last became true; -1 if false
    pc,          \* where the engine thread is
    action,      \* name the engine invoked
    param,       \* ActionArgs::param
    ctxTasker,   \* Context::tasker_handle(): "tasker", "null" or "unusable"
    clock,       \* monotonic ms since the invocation was entered
    start,       \* wait_with_stop_check: start
    total,       \* wait_with_stop_check: total
    wakeAt,      \* end of the thread::sleep in progress
    sleeps,      \* thread::sleep calls of this invocation
    waitOutcome, \* "none", "Completed" or "Interrupted"
    now,         \* chrono::Local::now() read by WaitUntil
    tz,          \* local time zone read by WaitUntil
    resolved,    \* WaitUntil's resolved deadline (an Option)
    result,      \* the bool handed back to the engine: "none", "true", "false"
    effects,     \* platform calls of this invocation, in order
    faulted,     \* this invocation's implementation panicked
    panics,      \* panics so far
    exitCause    \* why the host process ended: "none", "process_exit", "killed"

vars == <<platform, registered, failed_count, sessions, VCREDIST_MISSING,
          vcHistory, stopping, stopSetAt, pc, action, param, ctxTasker, clock,
          start, total, wakeAt, sleeps, waitOutcome, now, tz, resolved, result,
          effects, faulted, panics, exitCause>>

sideVars == <<sessions, VCREDIST_MISSING, vcHistory>>
hostVars == <<platform, registered, failed_count, sideVars>>
engineVars == <<hostVars, stopping, stopSetAt>>
callVars == <<action, param, ctxTasker>>
waitVars == <<clock, start, total, wakeAt, sleeps, waitOutcome>>
timeVars == <<now, tz, resolved>>
faultVars == <<faulted, panics>>

CtxTaskers == {"tasker", "null", "unusable"}

\* engine sessions of the host, each with a tasker of its own
Sessions == {"A", "B"}
IdleSession ==
    [pc |-> "idle", stopping |-> FALSE, start |-> 0, total |-> 0, wakeAt |-> 0,
     sleeps |-> 0, outcome |-> "none", ended |-> 0, seen |-> FALSE]
NoSessions == [s \in Sessions |-> IdleSession]

\* threads that call check_vcredist_missing
Threads == {"t1", "t2", "t3"}
NoVcHistory ==
    [lastSet |-> "none", checks |-> 0, trues |-> 0, ops |-> 0,
     at |-> [t \in Threads |-> "idle"],
     missing |-> [t \in Threads |-> FALSE],
     got |-> [t \in Threads |-> "none"]]
HostAlive == pc # "exited"
InWait == pc \in {"waiting", "sleeping"}

Init ==
    /\ platform \in Platforms
    /\ registered = ActionNames
    /\ failed_count = 0
    /\ sessions = NoSessions
    /\ VCREDIST_MISSING = FALSE
    /\ vcHistory = NoVcHistory
    /\ stopping = FALSE
    /\ stopSetAt = -1
    /\ pc = "idle"
    /\ action = "none"
    /\ param = Empty
    /\ ctxTasker = "tasker"
    /\ clock = 0
    /\ start = 0
    /\ total = 0
    /\ wakeAt = 0
    /\ sleeps = 0
    /\ waitOutcome = "none"
    /\ now = 0
    /\ tz = TzFixed
    /\ resolved = None
    /\ result = "none"
    /\ effects = <<>>
    /\ faulted = FALSE
    /\ panics = 0
    /\ exitCause = "none"

(***************************************************************************)
(* The engine                                                              *)
(***************************************************************************)
\* the engine calls a registered action by name
Invoke ==
    /\ pc = "idle"
    /\ \E name \in registered, ctx \in CtxTaskers :
         \E p \in ParamsOf(name) :
            /\ action' = name
            /\ param' = p
            /\ ctxTasker' = ctx
    /\ pc' = "entered"
    /\ UNCHANGED <<engineVars, waitVars, timeVars, result, effects, faultVars,
                   exitCause>>

\* the engine takes the returned bool; the invocation's state is dropped
EngineResume ==
    /\ pc = "returned"
    /\ pc' = "idle"
    /\ action' = "none"
    /\ param' = Empty
    /\ ctxTasker' = "tasker"
    /\ clock' = 0 /\ start' = 0 /\ total' = 0 /\ wakeAt' = 0 /\ sleeps' = 0
    /\ waitOutcome' = "none"
    /\ now' = 0 /\ tz' = TzFixed /\ resolved' = None
    /\ result' = "none"
    /\ effects' = <<>>
    /\ faulted' = FALSE
    /\ stopSetAt' = IF stopping THEN 0 ELSE -1
    /\ UNCHANGED <<hostVars, stopping, panics, exitCause>>

\* the engine's task runner starts stopping (post_stop)
EngineSetStop ==
    /\ pc \in {"idle", "entered", "waiting", "sleeping", "blocked"}
    /\ ~stopping
    /\ stopping' = TRUE
    /\ stopSetAt' = clock - start
    /\ UNCHANGED <<hostVars, pc, callVars, waitVars, timeVars, result, effects,
                   faultVars, exitCause>>

\* the engine's task runner is no longer stopping
EngineClearStop ==
    /\ pc \in {"idle", "entered", "waiting", "sleeping", "blocked"}
    /\ stopping
    /\ stopping' = FALSE
    /\ stopSetAt' = -1
    /\ UNCHANGED <<hostVars, pc, callVars, waitVars, timeVars, result, effects,
                   faultVars, exitCause>>

(***************************************************************************)
(* The handlers                                                            *)
(***************************************************************************)
\* the registered closure hands `outcome` of the implementation to the engine
Return(outcome, ran) ==
    /\ pc' = "returned"
    /\ result' = reg_action_wrapper(outcome)
    /\ effects' = effects \o ran

\* wait_with_stop_check is entered with total_secs
EnterWait(total_secs) ==
    /\ pc' = "waiting"
    /\ start' = clock
    /\ total' = total_secs * MsPerSec
    /\ UNCHANGED <<clock, wakeAt, sleeps, waitOutcome, result, effects>>

\* mxu_sleep_action_fn up to the call of wait_with_stop_check
RunSleep ==
    /\ pc = "entered" /\ action = MXU_SLEEP_ACTION
    /\ EnterWait(sleep_seconds(param))
    /\ UNCHANGED <<engineVars, callVars, timeVars, faultVars, exitCause>>

\* mxu_waituntil_action_fn up to the call of wait_with_stop_check
RunWaitUntil ==
    /\ pc = "entered" /\ action = MXU_WAITUNTIL_ACTION
    /\ LET target == IF ParsesAsJson(param)
                     THEN RequiredStr(param, "target_time") ELSE None
           hm == IF IsSome(target) THEN ParseTargetTime(target[1]) ELSE None
       IN  IF ~IsSome(hm)
           THEN /\ Return("false", <<>>)
                /\ UNCHANGED <<waitVars, timeVars>>
           ELSE \E n \in NowSamples, z \in TzScenarios :
                   LET r == ResolveWait(z, n, hm[1])
                   IN  /\ now' = n
                       /\ tz' = z
                       /\ resolved' = r
                       /\ IF ~IsSome(r)
                          THEN /\ Return("false", <<>>)
                               /\ UNCHANGED waitVars
                          ELSE /\ r[1].wait_secs <= MaxWaitSecs
                               /\ EnterWait(r[1].wait_secs)
    /\ UNCHANGED <<engineVars, callVars, faultVars, exitCause>>

\* one iteration of the loop of wait_with_stop_check, or its exit
WaitCheck ==
    /\ pc = "waiting"
    /\ LET elapsed == clock - start
           after(done) == IF action = MXU_SLEEP_ACTION
                          THEN sleep_after_wait(done)
                          ELSE waituntil_after_wait(done)
       IN  IF WaitContinues(elapsed, total)
           THEN IF is_tasker_stopping(ctxTasker, stopping)
                THEN /\ waitOutcome' = "Interrupted"
                     /\ Return(after(FALSE), <<>>)
                     /\ UNCHANGED <<wakeAt, sleeps>>
                ELSE /\ wakeAt' = clock + SleepLength(elapsed, total)
                     /\ sleeps' = sleeps + 1
                     /\ pc' = "sleeping"
                     /\ UNCHANGED <<waitOutcome, result, effects>>
           ELSE /\ waitOutcome' = "Completed"
                /\ Return(after(TRUE), <<>>)
                /\ UNCHANGED <<wakeAt, sleeps>>
    /\ stopping' = IF WaitContinues(clock - start, total)
                   THEN signal_after_query(ctxTasker, stopping)
                   ELSE stopping
    /\ UNCHANGED <<hostVars, stopSetAt, callVars, clock, start, total, timeVars,
                   faultVars, exitCause>>

\* time passes while the thread is in thread::sleep; it wakes at wakeAt
Tick ==
    /\ pc = "sleeping"
    /\ LET d == IF wakeAt - clock < TickMs THEN wakeAt - clock ELSE TickMs
       IN  /\ clock' = clock + d
           /\ pc' = IF clock + d >= wakeAt THEN "waiting" ELSE "sleeping"
    /\ UNCHANGED <<engineVars, callVars, start, total, wakeAt, sleeps,
                   waitOutcome, timeVars, result, effects, faultVars, exitCause>>

\* the handlers below neither wait nor read the clock
NoWait == UNCHANGED <<engineVars, callVars, waitVars, timeVars, faultVars>>

\* what the handler under way was given as its &Context
Ctx == Context(ctxTasker, stopping)

\* mxu_launch_action_fn; with wait_for_exit the thread stays in cmd.status()
RunLaunch ==
    /\ pc = "entered" /\ action = MXU_LAUNCH_ACTION
    /\ \E running \in BOOLEAN, spawned \in BOOLEAN :
          LET r == mxu_launch_action_fn(Ctx, param, running, spawned)
          IN  IF r.ret = "blocked"
              THEN /\ pc' = "blocked"
                   /\ effects' = effects \o r.ran
                   /\ UNCHANGED result
              ELSE Return(r.ret, r.ran)
    /\ NoWait
    /\ UNCHANGED exitCause

\* cmd.status() returns: the launched process has ended, with any exit status
\* or by a signal
LaunchExit ==
    /\ pc = "blocked"
    /\ \E ev \in ExitEvents \cup {"running"} :
          /\ status_returns(stopping, ev)
          /\ Return(launch_status_result(ev),
                    <<Effect("status_returned", effects[Len(effects)].target, ev)>>)
    /\ NoWait
    /\ UNCHANGED exitCause

\* mxu_webhook_action_fn
RunWebhook ==
    /\ pc = "entered" /\ action = MXU_WEBHOOK_ACTION
    /\ \E built \in BOOLEAN, sent \in SendOutcomes :
          LET r == mxu_webhook_action_fn(Ctx, param, built, sent)
          IN  Return(r.ret, r.ran)
    /\ NoWait
    /\ UNCHANGED exitCause

\* mxu_notify_action_fn
RunNotify ==
    /\ pc = "entered" /\ action = MXU_NOTIFY_ACTION
    /\ \E shown \in BOOLEAN :
          LET r == mxu_notify_action_fn(Ctx, param, shown)
          IN  Return(r.ret, r.ran)
    /\ NoWait
    /\ UNCHANGED exitCause

\* mxu_killproc_action_fn.  std::process::exit ends the host; so may a kill
\* tool that succeeds on the host's own name, before the handler returns.
RunKillProc ==
    /\ pc = "entered" /\ action = MXU_KILLPROC_ACTION
    /\ \E exe \in {None, Some(StrExe)}, k1 \in ToolOutcomes,
          k2 \in ToolOutcomes, survives \in BOOLEAN :
          LET r == mxu_killproc_action_fn(Ctx, param, platform, exe, k1, k2)
          IN  IF r.ret = "exit"
              THEN /\ pc' = "exited"
                   /\ exitCause' = "process_exit"
                   /\ effects' = effects \o r.ran
                   /\ UNCHANGED result
              ELSE IF r.ret = "true" /\ r.ran[1].target = StrExe /\ ~survives
              THEN /\ pc' = "exited"
                   /\ exitCause' = "killed"
                   /\ effects' = effects \o r.ran
                   /\ UNCHANGED result
              ELSE /\ Return(r.ret, r.ran)
                   /\ UNCHANGED exitCause
    /\ NoWait

\* mxu_power_action_fn
RunPower ==
    /\ pc = "entered" /\ action = MXU_POWER_ACTION
    /\ \E spawned \in BOOLEAN :
          LET r == mxu_power_action_fn(Ctx, param, platform, spawned)
          IN  Return(r.ret, r.ran)
    /\ NoWait
    /\ UNCHANGED exitCause

\* the implementation panics; catch_unwind in the registered closure takes it
Panic ==
    /\ pc \in {"entered", "waiting", "sleeping", "blocked"}
    /\ panics < MaxPanics
    /\ panics' = panics + 1
    /\ faulted' = TRUE
    /\ Return("panic", <<>>)
    /\ UNCHANGED <<engineVars, callVars, waitVars, timeVars, exitCause>>

Next ==
    \/ Invoke
    \/ EngineResume
    \/ EngineSetStop
    \/ EngineClearStop
    \/ RunSleep
    \/ RunWaitUntil
    \/ WaitCheck
    \/ Tick
    \/ RunLaunch
    \/ LaunchExit
    \/ RunWebhook
    \/ RunNotify
    \/ RunKillProc
    \/ RunPower
    \/ Panic

Spec == Init /\ [][Next]_vars

\* the engine thread keeps running the handler and time keeps passing
FairSpec == Spec /\ WF_vars(RunSleep) /\ WF_vars(WaitCheck) /\ WF_vars(Tick)

(***************************************************************************)
(* Deadline resolution on its own: the inputs are drawn in the initial     *)
(* state and one step applies ResolveWait to them.                         *)
(***************************************************************************)
ResolveTargets ==
    { <<"0", "8", ":", "0", "0">>, <<"0", "2", ":", "3", "0">>,
      <<"2", "3", ":", "3", "0">>, <<"0", ":", "0">>, <<"1", "2", ":", "5", "9">> }
ResolveNows ==
    { 0, 8 * HourMs - 1500, 8 * HourMs, 9 * HourMs, 23 * HourMs,
      23 * HourMs + 45 * MinuteMs,
      DayMs, DayMs + 30 * MinuteMs, DayMs + HourMs,
      DayMs + 2 * HourMs + 30 * MinuteMs - 1000, DayMs + 9 * HourMs,
      2 * DayMs + 9 * HourMs }

InitResolve ==
    /\ platform = "linux"
    /\ registered = ActionNames
    /\ failed_count = 0
    /\ sessions = NoSessions
    /\ VCREDIST_MISSING = FALSE
    /\ vcHistory = NoVcHistory
    /\ stopping = FALSE
    /\ stopSetAt = -1
    /\ pc = "resolving"
    /\ action = MXU_WAITUNTIL_ACTION
    /\ param \in AnyObjects("target_time", {JStr(t) : t \in ResolveTargets})
    /\ ctxTasker = "tasker"
    /\ clock = 0
    /\ start = 0
    /\ total = 0
    /\ wakeAt = 0
    /\ sleeps = 0
    /\ waitOutcome = "none"
    /\ now \in ResolveNows
    /\ tz \in TzScenarios
    /\ resolved = None
    /\ result = "none"
    /\ effects = <<>>
    /\ faulted = FALSE
    /\ panics = 0
    /\ exitCause = "none"

ResolveStep ==
    /\ pc = "resolving"
    /\ LET hm == ParseTargetTime(RequiredStr(param, "target_time")[1])
       IN  resolved' = ResolveWait(tz, now, hm[1])
    /\ pc' = "resolved"
    /\ result' = IF resolved' = None THEN "false" ELSE "none"
    /\ UNCHANGED <<engineVars, callVars, waitVars, now, tz, effects, faultVars,
                   exitCause>>

SpecResolve == InitResolve /\ [][ResolveStep]_vars

(***************************************************************************)
(* register_all_mxu_actions on its own: the resource starts without custom *)
(* actions, each reg_action! call is one step, and the function returns.   *)
(***************************************************************************)
InitRegister ==
    /\ platform \in Platforms
    /\ registered = {}
    /\ failed_count = 0
    /\ sessions = NoSessions
    /\ VCREDIST_MISSING = FALSE
    /\ vcHistory = NoVcHistory
    /\ stopping = FALSE
    /\ stopSetAt = -1
    /\ pc = "registering"
    /\ action = "none"
    /\ param = Empty
    /\ ctxTasker = "tasker"
    /\ clock = 0
    /\ start = 0
    /\ total = 0
    /\ wakeAt = 0
    /\ sleeps = 0
    /\ waitOutcome = "none"
    /\ now = 0
    /\ tz = TzFixed
    /\ resolved = None
    /\ result = "none"
    /\ effects = <<>>
    /\ faulted = FALSE
    /\ panics = 0
    /\ exitCause = "none"

RegFrame ==
    UNCHANGED <<platform, sideVars, stopping, stopSetAt, callVars, waitVars, timeVars,
                faultVars, exitCause>>

\* one reg_action! call: resource.register_custom_action answers Ok or Err
RegisterOne ==
    /\ pc = "registering"
    /\ Len(effects) < Len(RegOrder)
    /\ LET name == RegOrder[Len(effects) + 1]
       IN  \E ok \in BOOLEAN :
             /\ effects' = Append(effects, Effect("register", name, OkErr(ok)))
             /\ registered' = IF ok THEN registered \cup {name} ELSE registered
             /\ failed_count' = IF ok THEN failed_count ELSE failed_count + 1
    /\ UNCHANGED <<pc, result>>
    /\ RegFrame

\* the log lines and the final Ok(())
RegisterReturn ==
    /\ pc = "registering"
    /\ Len(effects) = Len(RegOrder)
    /\ pc' = "registrations_done"
    /\ result' = register_all_result(failed_count)
    /\ UNCHANGED <<registered, failed_count, effects>>
    /\ RegFrame

NextRegister == RegisterOne \/ RegisterReturn

SpecRegister == InitRegister /\ [][NextRegister]_vars

(***************************************************************************)
(* commands/system.rs: the VCREDIST_MISSING flag on its own. The host      *)
(* stores into it, and the frontend's check_vcredist_missing commands run  *)
(* on several threads; store and swap are single atomic steps.             *)
(***************************************************************************)
InitVcredist == Init

VcFrame ==
    UNCHANGED <<platform, registered, failed_count, sessions, stopping,
                stopSetAt, pc, callVars, waitVars, timeVars, result, effects,
                faultVars, exitCause>>

\* set_vcredist_missing(missing): VCREDIST_MISSING.store(missing, SeqCst)
set_vcredist_missing(missing) ==
    /\ vcHistory.ops < MaxVcOps
    /\ VCREDIST_MISSING' = missing
    /\ vcHistory' = [vcHistory EXCEPT !.lastSet = IF missing THEN "true" ELSE "false",
                                      !.checks = 0, !.trues = 0,
                                      !.ops = @ + 1]
    /\ VcFrame

VcSet == \E missing \in BOOLEAN : set_vcredist_missing(missing)

\* check_vcredist_missing, first half: let missing = VCREDIST_MISSING.swap(false)
VcSwap(t) ==
    /\ vcHistory.ops < MaxVcOps
    /\ vcHistory.at[t] = "idle"
    /\ VCREDIST_MISSING' = vcredist_after_swap(VCREDIST_MISSING)
    /\ vcHistory' = [vcHistory EXCEPT !.at[t] = "swapped",
                                      !.missing[t] = VCREDIST_MISSING,
                                      !.checks = @ + 1,
                                      !.trues = IF VCREDIST_MISSING THEN @ + 1 ELSE @,
                                      !.ops = @ + 1]
    /\ VcFrame

\* check_vcredist_missing, second half: the log line and the returned `missing`
VcReturn(t) ==
    /\ vcHistory.at[t] = "swapped"
    /\ vcHistory' = [vcHistory EXCEPT !.at[t] = "idle",
                                      !.got[t] = IF vcHistory.missing[t] THEN "true" ELSE "false"]
    /\ UNCHANGED VCREDIST_MISSING
    /\ VcFrame

check_vcredist_missing == \E t \in Threads : VcSwap(t) \/ VcReturn(t)

NextVcredist == VcSet \/ check_vcredist_missing

SpecVcredist == InitVcredist /\ [][NextVcredist]_vars

(***************************************************************************)
(* Two engine sessions, each with its own tasker, running                  *)
(* wait_with_stop_check in parallel on their own threads. The threads      *)
(* share the monotonic clock and nothing else; each context hands out the  *)
(* handle of its own session's tasker.                                     *)
(***************************************************************************)
InitSessions == Init

SessFrame ==
    UNCHANGED <<platform, registered, failed_count, VCREDIST_MISSING,
                vcHistory, stopping, stopSetAt, pc, callVars, start, total,
                wakeAt, sleeps, waitOutcome, timeVars, result, effects,
                faultVars, exitCause>>

\* Tasker::stopping() of every tasker of the host
Signals == [h \in Sessions |-> sessions[h].stopping]

\* the engine of session s invokes a waiting action: let start = Instant::now()
SessionStart(s) ==
    /\ sessions[s].pc = "idle"
    /\ \E secs \in 0..MaxSleepSecs :
         sessions' = [sessions EXCEPT ![s].pc = "waiting",
                                      ![s].start = clock,
                                      ![s].total = secs * MsPerSec]
    /\ UNCHANGED clock
    /\ SessFrame

\* the engine of session s is asked to stop its task
SessionSetStop(s) ==
    /\ sessions[s].pc # "returned"
    /\ ~sessions[s].stopping
    /\ sessions' = [sessions EXCEPT ![s].stopping = TRUE]
    /\ UNCHANGED clock
    /\ SessFrame

\* the engine of session s is past the stop
SessionClearStop(s) ==
    /\ sessions[s].pc # "returned"
    /\ sessions[s].stopping
    /\ sessions' = [sessions EXCEPT ![s].stopping = FALSE]
    /\ UNCHANGED clock
    /\ SessFrame

\* one pass of session s through the loop head of wait_with_stop_check
SessionWaitCheck(s) ==
    /\ sessions[s].pc = "waiting"
    /\ LET me == sessions[s]
           elapsed == clock - me.start
       IN  IF WaitContinues(elapsed, me.total)
           THEN IF is_tasker_stopping("tasker", tasker_stopping(s, Signals))
                THEN sessions' = [sessions EXCEPT ![s].pc = "returned",
                                                  ![s].outcome = "Interrupted",
                                                  ![s].ended = clock,
                                                  ![s].seen = me.stopping]
                ELSE sessions' = [sessions EXCEPT ![s].pc = "sleeping",
                                                  ![s].wakeAt = clock + SleepLength(elapsed, me.total),
                                                  ![s].sleeps = @ + 1,
                                                  ![s].seen = me.stopping]
           ELSE sessions' = [sessions EXCEPT ![s].pc = "returned",
                                             ![s].outcome = "Completed",
                                             ![s].ended = clock]
    /\ UNCHANGED clock
    /\ SessFrame

\* time passes while threads are in thread::sleep; each wakes at its wakeAt
SessionTick ==
    /\ \E s \in Sessions : sessions[s].pc = "sleeping"
    /\ \A s \in Sessions : sessions[s].pc # "waiting"
    /\ LET left == {sessions[s].wakeAt - clock :
                       s \in {x \in Sessions : sessions[x].pc = "sleeping"}}
                   \cup {TickMs}
           d == CHOOSE x \in left : \A y \in left : x <= y
       IN  /\ clock' = clock + d
           /\ sessions' = [s \in Sessions |->
                 IF sessions[s].pc = "sleeping" /\ clock + d >= sessions[s].wakeAt
                 THEN [sessions[s] EXCEPT !.pc = "waiting"]
                 ELSE sessions[s]]
    /\ SessFrame

NextSessions ==
    \/ \E s \in Sessions : SessionStart(s)
    \/ \E s \in Sessions : SessionSetStop(s)
    \/ \E s \in Sessions : SessionClearStop(s)
    \/ \E s \in Sessions : SessionWaitCheck(s)
    \/ SessionTick

SpecSessions == InitSessions /\ [][NextSessions]_vars

(***************************************************************************)
(* Properties                                                              *)
(***************************************************************************)
Elapsed == clock - start
Returned == pc = "returned"
\* the handler has run at least its first step
Started == pc \notin {"idle", "entered", "resolving", "resolved", "registering",
                     "registrations_done"}
NoSideEffect ==
    /\ effects = <<>>
    /\ sleeps = 0
    /\ waitOutcome = "none"
    /\ pc \notin {"waiting", "sleeping", "blocked", "exited"}

\* C1: when an action's implementation panics, the registered wrapper hands
\* false to the engine for that invocation and the host stays alive, ready
\* for the next invocation.
C1_FaultContained ==
    faulted => /\ pc = "returned"
               /\ result = "false"
               /\ HostAlive
               /\ exitCause = "none"
\* a later invocation, after a panic, has returned true
C1_Witness ==
    /\ panics >= 1
    /\ ~faulted
    /\ Returned
    /\ result = "true"

\* C2 (as stated): every invocation ends by handing a bool to the engine;
\* the handlers never end the host process themselves, also not KillProcess
\* with kill_self = true when the executable's file name is unknown.
C2_EveryInvocationReturns == exitCause # "process_exit"
\* C2 (amended): an invocation that returns hands the engine "true" or
\* "false"; the host ends inside an invocation only in KillProcess, either
\* by process::exit(0) when kill_self is true and the executable's file name
\* is unknown, or as the target of its own successful kill command.
C2_ReturnsOrKillsSelf ==
    /\ Returned => result \in {"true", "false"}
    /\ ~Returned => result = "none"
    /\ pc = "exited" =>
          /\ action = MXU_KILLPROC_ACTION
          /\ param.kind # "malformed"
          /\ exitCause \in {"process_exit", "killed"}
          /\ exitCause = "process_exit" =>
                /\ Get(param, "kill_self") # JBool(FALSE)
                /\ effects = <<Effect("exit", <<>>, "none")>>
          /\ exitCause = "killed" =>
                /\ effects # <<>>
                /\ effects[Len(effects)].target = StrExe
    /\ exitCause # "none" => pc = "exited"
\* process::exit(0) was called in KillProcess
C2_Witness ==
    /\ pc = "exited"
    /\ exitCause = "process_exit"
    /\ action = MXU_KILLPROC_ACTION

\* the stopping signal became true at stopSetAt < total and stayed true
\* until the wait returned, in a context whose tasker handle is usable
StopDuringWait ==
    /\ Returned
    /\ ~faulted
    /\ waitOutcome # "none"
    /\ total > 0
    /\ ctxTasker = "tasker"
    /\ stopSetAt >= 0
    /\ stopSetAt < total

\* C3 (as stated): a signal that becomes true at t < total and stays true
\* makes the wait return Interrupted no later than one poll step after t,
\* also for t inside the final poll step.
C3_AlwaysInterrupted ==
    StopDuringWait => /\ waitOutcome = "Interrupted"
                      /\ Elapsed <= stopSetAt + STEP
\* C3 (amended): such a wait returns no later than one poll step after t;
\* it returns Interrupted when a check of the loop follows t, and Completed
\* (at total) when t falls after the last check, inside the final poll step.
C3_ReturnsWithinStep ==
    StopDuringWait =>
        /\ Elapsed <= stopSetAt + STEP
        /\ Elapsed >= stopSetAt
        /\ waitOutcome = "Completed" => (stopSetAt >= total - STEP /\ Elapsed = total)
        /\ stopSetAt < total - STEP => waitOutcome = "Interrupted"
\* a wait interrupted a full poll step after the signal was set
C3_Witness ==
    /\ StopDuringWait
    /\ waitOutcome = "Interrupted"
    /\ stopSetAt > 0
    /\ Elapsed = stopSetAt + STEP

\* C4: with total_duration = 0 the wait returns Completed and never sleeps.
C4_ZeroWait ==
    (Started /\ action \in WaitingActions /\ total = 0 /\ ~faulted
        /\ (action = MXU_WAITUNTIL_ACTION => IsSome(resolved)))
    => /\ pc # "sleeping"
       /\ sleeps = 0
       /\ Elapsed = 0
       /\ Returned => waitOutcome = "Completed"
\* a zero-length wait has returned while the session was stopping
C4_Witness ==
    /\ Returned
    /\ action = MXU_SLEEP_ACTION
    /\ Get(param, "sleep_time") = JNum(0)
    /\ waitOutcome = "Completed"
    /\ stopping

Malformation == param.kind = "malformed"

\* C5 (as stated): for each of the seven actions a payload that is not valid
\* JSON gives failure and no side effect, no wait included.
C5_MalformedFailsEverywhere ==
    (Started /\ Malformation) => /\ Returned
                                 /\ result = "false"
                                 /\ NoSideEffect
\* C5 (amended): that holds for WaitUntil, Launch, Webhook, Notify,
\* KillProcess and Power; Sleep takes a payload that is not valid JSON as
\* sleep_time = 5: it waits 5 seconds and returns success unless the wait
\* is interrupted, with no other side effect.
C5_MalformedFailsButSleep ==
    (Started /\ Malformation) =>
        IF action # MXU_SLEEP_ACTION
        THEN /\ Returned
             /\ result = "false"
             /\ NoSideEffect
        ELSE /\ ~faulted => total = DefaultSleepSecs * MsPerSec
             /\ effects = <<>>
             /\ pc \in {"waiting", "sleeping", "returned"}
             /\ (Returned /\ ~faulted) =>
                   /\ waitOutcome # "none"
                   /\ result = "true" <=> waitOutcome = "Completed"
                   /\ result = "true" => Elapsed = DefaultSleepSecs * MsPerSec
\* Sleep, given text that is not JSON, has slept 5 seconds and returned true
C5_Witness ==
    /\ Returned
    /\ Malformation
    /\ action = MXU_SLEEP_ACTION
    /\ result = "true"
    /\ Elapsed = DefaultSleepSecs * MsPerSec

\* the field is absent, not a string, empty or only whitespace
Blank(v) == v.t # "str" \/ \A i \in 1..Len(v.s) : v.s[i] \in {" ", "\t"}
MissingRequired ==
    /\ param.kind # "malformed"
    /\ \/ action = MXU_WAITUNTIL_ACTION /\ Blank(Get(param, "target_time"))
       \/ action = MXU_LAUNCH_ACTION /\ Blank(Get(param, "program"))
       \/ action = MXU_WEBHOOK_ACTION /\ Blank(Get(param, "url"))
       \/ /\ action = MXU_KILLPROC_ACTION
          /\ Get(param, "kill_self") = JBool(FALSE)
          /\ Blank(Get(param, "process_name"))
\* every decoded parameter is the same with and without the unknown field
ExtraIgnored ==
    LET q == With(param, "extra", JAbsent)
    IN  /\ sleep_seconds(param) = sleep_seconds(q)
        /\ \A k \in {"target_time", "program", "url", "process_name"} :
              RequiredStr(param, k) = RequiredStr(q, k)
        /\ launch_args_str(param) = launch_args_str(q)
        /\ launch_wait_for_exit(param) = launch_wait_for_exit(q)
        /\ launch_skip_if_running(param) = launch_skip_if_running(q)
        /\ notify_title(param) = notify_title(q)
        /\ notify_body(param) = notify_body(q)
        /\ kill_self(param) = kill_self(q)
        /\ power_action(param) = power_action(q)

\* C6: WaitUntil, Launch, Webhook and KillProcess (kill_self = false) fail
\* before any side effect when the required field is absent, empty or only
\* whitespace: no wait, no clock read, no is_running query, no spawn, no
\* HTTP request, no kill command; an unknown extra field changes nothing.
C6_RequiredFields ==
    /\ (Started /\ MissingRequired) => /\ Returned
                                       /\ result = "false"
                                       /\ NoSideEffect
                                       /\ now = 0
                                       /\ resolved = None
    /\ ExtraIgnored
\* KillProcess with kill_self = false, a blank process_name and an unknown
\* extra field has failed
C6_Witness ==
    /\ Returned
    /\ ~faulted
    /\ action = MXU_KILLPROC_ACTION
    /\ Get(param, "kill_self") = JBool(FALSE)
    /\ Get(param, "process_name") = JStr(StrBlank)
    /\ Get(param, "extra") # JAbsent
    /\ result = "false"

\* a Sleep invocation with sleep_time a non-negative integer
SleepN ==
    /\ action = MXU_SLEEP_ACTION
    /\ Get(param, "sleep_time").t = "num"
    /\ Get(param, "sleep_time").n >= 0
\* C7: a Sleep with sleep_time = N during which the stopping signal is never
\* set (and no fault occurs) eventually returns success, and it does not
\* return success before N seconds have passed since the wait started.
C7_SleepCompletes ==
    /\ []((Returned /\ SleepN /\ result = "true")
            => Elapsed >= Get(param, "sleep_time").n * MsPerSec)
    /\ (SleepN /\ pc \in {"entered", "waiting", "sleeping"})
          ~> ((Returned /\ result = "true") \/ stopping \/ faulted)
\* a Sleep of at least one second has returned true, never stopped
C7_Witness ==
    /\ Returned
    /\ SleepN
    /\ Get(param, "sleep_time").n >= 1
    /\ result = "true"
    /\ ~stopping
    /\ Elapsed = Get(param, "sleep_time").n * MsPerSec

\* C8: a Sleep or WaitUntil whose wait returned Interrupted returns false,
\* and one that returns true had its wait return Completed.
C8_InterruptedFails ==
    (Returned /\ action \in WaitingActions /\ ~faulted) =>
        /\ waitOutcome = "Interrupted" => result = "false"
        /\ result = "true" => waitOutcome = "Completed"
\* a WaitUntil with a valid target was interrupted and returned false
C8_Witness ==
    /\ Returned
    /\ action = MXU_WAITUNTIL_ACTION
    /\ IsSome(resolved)
    /\ waitOutcome = "Interrupted"
    /\ result = "false"

\* C9: the deadline is today's candidate when that is later than now, and
\* otherwise the same wall-clock HH:MM of the following calendar day, also
\* when a daylight-saving transition lies in between.
C9_NextCalendarDay ==
    (pc = "resolved" /\ IsSome(resolved)) =>
        LET r == resolved[1]
        IN  IF r.today > now
            THEN r.deadline = r.today
            ELSE NaiveLocal(tz, r.deadline) = r.naive + DayMs

\* the instants today's target HH:MM:00 stands for, once `now` was read
TodayCandidates ==
    LET hm == ParseTargetTime(RequiredStr(param, "target_time")[1])[1]
    IN  FromLocalDatetime(tz,
            AndHms(DateNaive(NaiveLocal(tz, now)), hm.hour, hm.minute))
TargetParsed ==
    /\ action = MXU_WAITUNTIL_ACTION
    /\ param.kind # "malformed"
    /\ IsSome(RequiredStr(param, "target_time"))
    /\ IsSome(ParseTargetTime(RequiredStr(param, "target_time")[1]))
\* C10: when today's target local time is ambiguous or does not exist,
\* WaitUntil returns failure without entering the wait and without a
\* deadline chosen.
C10_NoGuessOnDst ==
    (Started /\ TargetParsed /\ Cardinality(TodayCandidates) # 1) =>
        /\ Returned
        /\ result = "false"
        /\ NoSideEffect
        /\ resolved = None
\* WaitUntil has failed on a local time that occurs twice
C10_Witness ==
    /\ Returned
    /\ ~faulted
    /\ TargetParsed
    /\ Cardinality(TodayCandidates) = 2
    /\ result = "false"

\* the target_time string the invocation was given, if it was given one
TargetGiven ==
    IF ParsesAsJson(param) THEN as_str(Get(param, "target_time")) ELSE None
Colons(s) == {i \in 1..Len(s) : s[i] = ":"}
Least(S) == CHOOSE i \in S : \A j \in S : i <= j
\* the text before the first colon, and the text after it up to the next one
HourField(s) == SubSeq(s, 1, Least(Colons(s)) - 1)
MinuteField(s) ==
    LET c1 == Least(Colons(s))
        later == {i \in Colons(s) : i > c1} \cup {Len(s) + 1}
    IN  SubSeq(s, c1 + 1, Least(later) - 1)
\* a number in decimal digits, with or without a sign
NumericField(f) ==
    LET body == IF f # <<>> /\ f[1] \in {"+", "-"} THEN Tail(f) ELSE f
    IN  body # <<>> /\ \A i \in 1..Len(body) : body[i] \in Digits
FieldValue(f) ==
    LET body == IF f[1] \in {"+", "-"} THEN Tail(f) ELSE f
    IN  IF f[1] = "-" THEN 0 - DecimalValue(body) ELSE DecimalValue(body)
BadTarget(s) ==
    \/ Colons(s) = {}
    \/ ~NumericField(HourField(s))
    \/ ~NumericField(MinuteField(s))
    \/ FieldValue(HourField(s)) >= 24
    \/ FieldValue(MinuteField(s)) >= 60
\* C11: a WaitUntil whose target_time has fewer than two colon-separated
\* fields, an hour or minute field that is not a number, an hour >= 24 or a
\* minute >= 60 returns false without reading the clock or entering the
\* wait; a target it goes on with has its hour in 0..23 and its minute in
\* 0..59, and these are the hour and minute of the local time it resolves.
C11_TargetTimeValidated ==
    (Started /\ action = MXU_WAITUNTIL_ACTION /\ IsSome(TargetGiven)) =>
        LET s == TargetGiven[1]
        IN  /\ BadTarget(s) => /\ Returned
                               /\ result = "false"
                               /\ NoSideEffect
                               /\ now = 0 /\ total = 0 /\ resolved = None
            /\ now # 0 =>
                  /\ ~BadTarget(s)
                  /\ FieldValue(HourField(s)) \in 0..23
                  /\ FieldValue(MinuteField(s)) \in 0..59
                  /\ IsSome(resolved) =>
                        resolved[1].naive =
                            AndHms(DateNaive(NaiveLocal(tz, now)),
                                   FieldValue(HourField(s)),
                                   FieldValue(MinuteField(s)))
\* "08:60" was rejected, and so was "24:00" (same shape, other field)
C11_Witness ==
    /\ Returned
    /\ ~faulted
    /\ action = MXU_WAITUNTIL_ACTION
    /\ IsSome(TargetGiven)
    /\ TargetGiven[1] \in {<<"0", "8", ":", "6", "0">>}
    /\ result = "false"
    /\ now = 0

\* the power_action string the invocation was given, if it was given one
PowerGiven ==
    IF ParsesAsJson(param) THEN as_str(Get(param, "power_action")) ELSE None
\* C12: a Power whose power_action is a string other than "shutdown",
\* "restart", "screenoff" and "sleep" returns false and makes no platform
\* call.
C12_UnknownPowerRejected ==
    (Started /\ action = MXU_POWER_ACTION /\ IsSome(PowerGiven)
       /\ PowerGiven[1] \notin {PowerShutdown, PowerRestart, PowerScreenoff,
                                PowerSleep}) =>
        /\ Returned
        /\ result = "false"
        /\ NoSideEffect
\* "hibernate" was rejected
C12_Witness ==
    /\ Returned
    /\ ~faulted
    /\ action = MXU_POWER_ACTION
    /\ PowerGiven = Some(StrHibernate)
    /\ result = "false"
    /\ effects = <<>>

\* a Launch whose program passed validation
LaunchValid ==
    /\ action = MXU_LAUNCH_ACTION
    /\ ParsesAsJson(param)
    /\ IsSome(RequiredStr(param, "program"))
\* positions in `effects` of the calls that start a process
SpawnAttempts == {i \in 1..Len(effects) : effects[i].op \in {"spawn", "status"}}
RunningQueries == {i \in 1..Len(effects) : effects[i].op = "is_running"}
\* C13: with skip_if_running = true the running predicate is asked first and,
\* when it answers "running", Launch returns true at once and starts no
\* process; with skip_if_running false or absent the predicate is not asked,
\* one spawn is attempted, and the handler does the same whatever the
\* predicate would have answered.
C13_SkipIfRunning ==
    (Started /\ LaunchValid /\ ~faulted) =>
        IF Get(param, "skip_if_running") = JBool(TRUE)
        THEN /\ RunningQueries = {1}
             /\ effects[1].out = "running" =>
                   /\ Returned
                   /\ result = "true"
                   /\ SpawnAttempts = {}
             /\ effects[1].out = "absent" => SpawnAttempts = {2}
        ELSE /\ RunningQueries = {}
             /\ SpawnAttempts = {1}
             /\ \A spawned \in BOOLEAN :
                   mxu_launch_action_fn(Ctx, param, TRUE, spawned)
                     = mxu_launch_action_fn(Ctx, param, FALSE, spawned)
\* a Launch with skip_if_running = true found the program running
C13_Witness ==
    /\ Returned
    /\ ~faulted
    /\ LaunchValid
    /\ Get(param, "skip_if_running") = JBool(TRUE)
    /\ Len(effects) = 1
    /\ effects[1].op = "is_running"
    /\ effects[1].out = "running"
    /\ result = "true"

LastEffect == effects[Len(effects)]
\* C14: once Launch attempts the spawn, it returns true exactly when the OS
\* started the process: with wait_for_exit = true it is cmd.status() that
\* runs, the handler stays blocked until the process has ended and then
\* returns true for every exit status; otherwise it is cmd.spawn() and the
\* handler returns true at once; a spawn error returns false in both modes.
C14_SpawnOutcome ==
    (Started /\ LaunchValid /\ ~faulted /\ SpawnAttempts # {}) =>
        LET a == effects[Least(SpawnAttempts)]
            waits == Get(param, "wait_for_exit") = JBool(TRUE)
        IN  /\ Cardinality(SpawnAttempts) = 1
            /\ a.op = (IF waits THEN "status" ELSE "spawn")
            /\ Returned => (result = "true" <=> a.out = "ok")
            /\ a.out = "err" => Returned /\ LastEffect = a
            /\ (a.out = "ok" /\ ~waits) => Returned /\ LastEffect = a
            /\ (a.out = "ok" /\ waits) =>
                  IF pc = "blocked"
                  THEN result = "none" /\ LastEffect = a
                  ELSE /\ Returned
                       /\ LastEffect.op = "status_returned"
                       /\ LastEffect.out \in ExitEvents
\* a Launch that waited returned true for a process that exited with status 1
C14_Witness ==
    /\ Returned
    /\ ~faulted
    /\ LaunchValid
    /\ Get(param, "wait_for_exit") = JBool(TRUE)
    /\ LastEffect.op = "status_returned"
    /\ LastEffect.out = "exit_1"
    /\ result = "true"

\* the args string of the payload: "" when absent or not a string
ArgsGiven == UnwrapOr(as_str(Get(param, "args")), <<>>)
\* C15: the argument list of the process Launch starts is empty when args is
\* absent, empty or blank; otherwise it is the shell-style tokenization of
\* args (quotes group, so -n "a b" is the two arguments -n and a b), and
\* exactly when that tokenization fails it is args split at white space; a
\* tokenizer error never keeps Launch from attempting the spawn.
C15_LaunchArguments ==
    (Started /\ LaunchValid /\ ~faulted /\ SpawnAttempts # {}) =>
        LET argv == effects[Least(SpawnAttempts)].args
        IN  /\ TrimIsEmpty(ArgsGiven) => argv = <<>>
            /\ (~TrimIsEmpty(ArgsGiven) /\ IsSome(ShellSplit(ArgsGiven))) =>
                  argv = ShellSplit(ArgsGiven)[1]
            /\ (~TrimIsEmpty(ArgsGiven) /\ ~IsSome(ShellSplit(ArgsGiven))) =>
                  argv = SplitWhitespace(ArgsGiven)
            /\ ArgsGiven = StrArgsQuoted =>
                  argv = << <<"-", "n">>, <<"a", " ", "b">> >>
            /\ ArgsGiven = StrArgsOpen => argv = << <<"\"", "a">>, <<"b">> >>
\* a Launch whose args have an unclosed quote started the process with the
\* white-space split of args
C15_Witness ==
    /\ Returned
    /\ ~faulted
    /\ LaunchValid
    /\ ArgsGiven = StrArgsOpen
    /\ SpawnAttempts = {1}
    /\ effects[1].args = << <<"\"", "a">>, <<"b">> >>
    /\ effects[1].out = "ok"
    /\ result = "true"

\* a Webhook whose url passed validation
WebhookValid ==
    /\ action = MXU_WEBHOOK_ACTION
    /\ ParsesAsJson(param)
    /\ IsSome(RequiredStr(param, "url"))
HttpGets == {i \in 1..Len(effects) : effects[i].op = "http_get"}
ResponseReceived ==
    \E i \in HttpGets :
        effects[i].out \in {"status_2xx", "status_4xx", "status_5xx"}
\* C16 as stated: every Webhook with a valid url sends exactly one GET and
\* returns true exactly when a response came back.
C16_ExactlyOneGet ==
    (Returned /\ WebhookValid /\ ~faulted) =>
        /\ Cardinality(HttpGets) = 1
        /\ result = "true" <=> ResponseReceived
\* C16: a Webhook with a valid url first builds its HTTP client; if that
\* fails it sends nothing and returns false; otherwise it sends exactly one
\* GET to the url and returns true exactly when a response came back,
\* whatever its status, and false on a transport failure.
C16_OneGetOnceClientBuilt ==
    (Returned /\ WebhookValid /\ ~faulted) =>
        /\ effects # <<>> /\ effects[1].op = "build_client"
        /\ IF effects[1].out = "err"
           THEN HttpGets = {} /\ Len(effects) = 1 /\ result = "false"
           ELSE /\ HttpGets = {2} /\ Len(effects) = 2
                /\ effects[2].target = RequiredStr(param, "url")[1]
                /\ effects[2].out = "transport_err" => result = "false"
        /\ result = "true" <=> ResponseReceived
\* a Webhook returned true on a 5xx response to its one GET
C16_Witness ==
    /\ Returned
    /\ ~faulted
    /\ WebhookValid
    /\ Cardinality(HttpGets) = 1
    /\ effects[2].out = "status_5xx"
    /\ result = "true"

KillTools == {"taskkill", "killall", "pkill"}
KillCalls == {i \in 1..Len(effects) : effects[i].op \in KillTools}
\* C17: KillProcess with kill_self absent, true or not a bool aims every
\* kill call at the file name of the running executable and never at
\* process_name; with kill_self = false it aims them at process_name, and
\* when process_name is absent, not a string, empty or blank it returns false
\* and runs no tool.
C17_KillTargetSelection ==
    (Started /\ action = MXU_KILLPROC_ACTION /\ ParsesAsJson(param)
       /\ ~faulted) =>
        IF Get(param, "kill_self") # JBool(FALSE)
        THEN /\ \A i \in KillCalls : effects[i].target = StrExe
             /\ KillCalls = {} => effects = <<Effect("exit", <<>>, "none")>>
        ELSE IF IsSome(RequiredStr(param, "process_name"))
        THEN /\ KillCalls # {}
             /\ \A i \in KillCalls :
                   effects[i].target = as_str(Get(param, "process_name"))[1]
        ELSE /\ Returned
             /\ result = "false"
             /\ NoSideEffect
\* a KillProcess without kill_self and with process_name "app" killed the
\* executable's own name
C17_Witness ==
    /\ Returned
    /\ ~faulted
    /\ action = MXU_KILLPROC_ACTION
    /\ ParsesAsJson(param)
    /\ Get(param, "kill_self") = JAbsent
    /\ Get(param, "process_name") = JStr(StrApp)
    /\ KillCalls # {}
    /\ effects[1].target = StrExe

Failures == {i \in 1..Len(effects) : effects[i].out = "err"}
\* C18: register_all_mxu_actions attempts the names in the order Sleep,
\* WaitUntil, Launch, Webhook, Notify, KillProcess, Power, each once; it
\* returns only after all seven attempts, whichever of them failed, and it
\* returns Ok; the names registered are those whose attempt succeeded.
C18_RegistersAllSeven ==
    LET order == <<"MXU_SLEEP_ACTION", "MXU_WAITUNTIL_ACTION",
                   "MXU_LAUNCH_ACTION", "MXU_WEBHOOK_ACTION",
                   "MXU_NOTIFY_ACTION", "MXU_KILLPROC_ACTION",
                   "MXU_POWER_ACTION">>
    IN  pc \in {"registering", "registrations_done"} =>
            /\ Len(effects) <= 7
            /\ \A i \in 1..Len(effects) :
                  effects[i].op = "register" /\ effects[i].target = order[i]
            /\ failed_count = Cardinality(Failures)
            /\ registered = {order[i] : i \in (1..Len(effects)) \ Failures}
            /\ IF pc = "registrations_done"
               THEN Len(effects) = 7 /\ result = "Ok"
               ELSE result = "none"
\* the call returned Ok although all seven registrations failed
C18_Witness ==
    /\ pc = "registrations_done"
    /\ Len(effects) = 7
    /\ failed_count = 7
    /\ registered = {}
    /\ result = "Ok"

\* C19: a step that changes the stopping signal is a step of the engine: the
\* handler under way is where it was, and its wait, result, platform calls
\* and fault state are untouched.  No step of a handler or of
\* wait_with_stop_check changes the signal.
C19_OnlyEngineWritesSignal ==
    [][stopping' # stopping =>
          /\ pc' = pc
          /\ UNCHANGED <<callVars, waitVars, timeVars, result, effects,
                         faultVars, exitCause>>]_vars
\* wait_with_stop_check has read the signal as set, and it is still set after
\* the handler returned
C19_Witness ==
    /\ Returned
    /\ action \in WaitingActions
    /\ waitOutcome = "Interrupted"
    /\ sleeps >= 1
    /\ stopping

\* every &Context a handler may be given: any tasker handle, signal set or not
Contexts == {Context(t, s) : t \in CtxTaskers, s \in BOOLEAN}
\* the state is what run `r` of the handler under way leaves behind: a
\* blocked cmd.status() is still blocked or has returned because the process
\* ended; a host that ended did so by process::exit or by its own kill
MatchesRun(r) ==
    CASE r.ret = "blocked" ->
            \/ pc = "blocked" /\ result = "none" /\ effects = r.ran
            \/ /\ Returned /\ result = "true"
               /\ Len(effects) = Len(r.ran) + 1
               /\ SubSeq(effects, 1, Len(r.ran)) = r.ran
               /\ LastEffect.op = "status_returned"
               /\ LastEffect.out \in ExitEvents
      [] r.ret = "exit" ->
            pc = "exited" /\ exitCause = "process_exit" /\ effects = r.ran
      [] OTHER ->
            /\ effects = r.ran
            /\ \/ Returned /\ result = r.ret
               \/ pc = "exited" /\ exitCause = "killed" /\ r.ret = "true"
\* for some platform outcomes, the state is what the handler leaves behind
\* under every context, whatever the signal was when it was read
SameUnderEveryContext ==
    CASE action = MXU_LAUNCH_ACTION ->
            \E running \in BOOLEAN, spawned \in BOOLEAN : \A c \in Contexts :
                MatchesRun(mxu_launch_action_fn(c, param, running, spawned))
      [] action = MXU_WEBHOOK_ACTION ->
            \E built \in BOOLEAN, sent \in SendOutcomes : \A c \in Contexts :
                MatchesRun(mxu_webhook_action_fn(c, param, built, sent))
      [] action = MXU_NOTIFY_ACTION ->
            \E shown \in BOOLEAN : \A c \in Contexts :
                MatchesRun(mxu_notify_action_fn(c, param, shown))
      [] action = MXU_KILLPROC_ACTION ->
            \E exe \in {None, Some(StrExe)}, k1 \in ToolOutcomes,
               k2 \in ToolOutcomes : \A c \in Contexts :
                MatchesRun(mxu_killproc_action_fn(c, param, platform, exe, k1, k2))
      [] action = MXU_POWER_ACTION ->
            \E spawned \in BOOLEAN : \A c \in Contexts :
                MatchesRun(mxu_power_action_fn(c, param, platform, spawned))
\* C20: Launch, Webhook, Notify, KillProcess and Power never enter the wait
\* primitive, and under every history of the stopping signal their result
\* and platform calls are those of one function of the payload and the
\* platform's answers, a function that gives the same for every context
\* and signal value; a Launch blocked in cmd.status() leaves it only when
\* the process has ended, also while the signal is set.
C20_StopNotObserved ==
    (Started /\ action \in ActionNames \ WaitingActions /\ ~faulted) =>
        /\ sleeps = 0 /\ waitOutcome = "none" /\ total = 0
        /\ SameUnderEveryContext
\* a Launch that waited for its process returned true while the signal was set
C20_Witness ==
    /\ Returned
    /\ ~faulted
    /\ LaunchValid
    /\ stopping
    /\ ctxTasker = "tasker"
    /\ LastEffect.op = "status_returned"
    /\ result = "true"

\* time the wait under way still has to run
Remaining == IF total > Elapsed THEN total - Elapsed ELSE 0
\* where the wait of this invocation stands
WaitState ==
    IF waitOutcome # "none" THEN waitOutcome
    ELSE IF InWait THEN "Waiting" ELSE "Pending"
\* C22: the wait of a Sleep or WaitUntil goes from Pending to Waiting with
\* all of total remaining, stays Waiting while the remaining time only goes
\* down (strictly whenever time passes), becomes Completed only from Waiting
\* with nothing remaining, becomes Interrupted only from Waiting at a step
\* that read the signal as set with time remaining, and Completed and
\* Interrupted stay until the engine has taken the result.
C22_WaitTransitions ==
    [][(~faulted' /\ pc' # "idle") =>
          /\ WaitState = "Pending" => WaitState' \in {"Pending", "Waiting"}
          /\ (WaitState = "Pending" /\ WaitState' = "Waiting") =>
                Remaining' = total'
          /\ WaitState = "Waiting" =>
                /\ Remaining' <= Remaining
                /\ total' = total
                /\ clock' # clock => Remaining' < Remaining
          /\ (WaitState = "Waiting" /\ WaitState' = "Completed") =>
                Remaining = 0 /\ Returned'
          /\ (WaitState = "Waiting" /\ WaitState' = "Interrupted") =>
                /\ stopping /\ ctxTasker = "tasker"
                /\ pc = "waiting" /\ Remaining > 0
                /\ Returned'
          /\ WaitState \in {"Completed", "Interrupted"} =>
                WaitState' = WaitState /\ Remaining' = Remaining]_vars
\* a wait went through several Waiting steps and completed
C22_Witness ==
    /\ Returned
    /\ ~faulted
    /\ action \in WaitingActions
    /\ WaitState = "Completed"
    /\ sleeps >= 2
    /\ Remaining = 0

\* elapsed times at which a check of the loop may find the wait
ElapsedSamples == {k * TickMs : k \in 0..(total \div TickMs)}
\* C23: a wait under way always ends, by Completed or Interrupted (or by a
\* fault), whatever the engine does with the signal, as long as the thread
\* runs and time passes; no sleep is asked to last more than a poll step or
\* beyond the end of the wait, the wait never runs past total, and it makes
\* at most ceil(total / STEP) sleeps.
C23_WaitTerminates ==
    /\ [](( Started /\ action \in WaitingActions /\ ~faulted) =>
            /\ Elapsed <= total
            /\ sleeps * STEP < total + STEP
            /\ pc = "sleeping" => /\ clock < wakeAt
                                  /\ wakeAt - clock <= STEP
                                  /\ wakeAt <= start + total
            /\ \A e \in ElapsedSamples :
                  /\ SleepLength(e, total) <= STEP
                  /\ e + SleepLength(e, total) <= total
                  /\ e < total => SleepLength(e, total) > 0)
    /\ InWait ~> (Returned /\ (faulted \/ waitOutcome \in {"Completed",
                                                           "Interrupted"}))
\* a wait of one second completed after exactly ceil(total / STEP) sleeps
C23_Witness ==
    /\ Returned
    /\ ~faulted
    /\ action \in WaitingActions
    /\ waitOutcome = "Completed"
    /\ total = MsPerSec
    /\ sleeps * STEP = total
    /\ Elapsed = total

SecsPerDay == DayMs \div MsPerSec
\* the largest change of the local offset in the zones considered
MaxShiftMs ==
    LET shift(z) == IF z.before > z.after THEN z.before - z.after
                    ELSE z.after - z.before
    IN  CHOOSE d \in {shift(z) : z \in TzScenarios} :
            \A z \in TzScenarios : shift(z) <= d
C25_KillallThenPkill ==
    (Started /\ action = MXU_KILLPROC_ACTION /\ platform # "windows"
       /\ KillCalls # {} /\ ~faulted) =>
        LET pkills == {i \in KillCalls : effects[i].op = "pkill"}
            succeeded == \E i \in KillCalls : effects[i].out = "exit_zero"
        IN  /\ effects[1].op = "killall"
            /\ KillCalls = 1..Len(effects)
            /\ pkills = (IF effects[1].out = "exit_nonzero" THEN {2} ELSE {})
            /\ \A i \in KillCalls : effects[i].op # "taskkill"
            /\ Returned => (result = "true" <=> succeeded)
            /\ pc = "exited" => succeeded
\* killall exited with a non-zero status, pkill then succeeded
C25_Witness ==
    /\ Returned
    /\ ~faulted
    /\ action = MXU_KILLPROC_ACTION
    /\ platform = "linux"
    /\ Len(effects) = 2
    /\ effects[1].op = "killall" /\ effects[1].out = "exit_nonzero"
    /\ effects[2].op = "pkill" /\ effects[2].out = "exit_zero"
    /\ result = "true"

\* the platform calls that change the power state
PowerOps == {"shutdown", "restart", "screenoff", "suspend"}
PowerCalls == {i \in 1..Len(effects) : effects[i].op \in PowerOps}
\* the operation each recognized power_action stands for
OperationOf(a) ==
    CASE a = <<"s", "h", "u", "t", "d", "o", "w", "n">> -> "shutdown"
      [] a = <<"r", "e", "s", "t", "a", "r", "t">> -> "restart"
      [] a = <<"s", "c", "r", "e", "e", "n", "o", "f", "f">> -> "screenoff"
      [] a = <<"s", "l", "e", "e", "p">> -> "suspend"
      [] OTHER -> "none"
\* C26: a Power whose payload is an object without power_action issues the
\* shutdown operation; one with a recognized power_action issues that
\* value's operation; in both cases it is the only platform call, and the
\* result is true exactly when the call was issued.
C26_PowerDispatch ==
    (Started /\ action = MXU_POWER_ACTION /\ ~faulted /\ param.kind = "obj"
       /\ (Get(param, "power_action") = JAbsent
             \/ (IsSome(PowerGiven) /\ OperationOf(PowerGiven[1]) # "none"))) =>
        /\ Returned
        /\ Len(effects) = 1
        /\ PowerCalls = {1}
        /\ effects[1].op = (IF Get(param, "power_action") = JAbsent
                            THEN "shutdown" ELSE OperationOf(PowerGiven[1]))
        /\ result = "true" <=> effects[1].out = "ok"
\* a Power without power_action issued the shutdown and returned true
C26_Witness ==
    /\ Returned
    /\ ~faulted
    /\ action = MXU_POWER_ACTION
    /\ param = Empty
    /\ Len(effects) = 1
    /\ effects[1].op = "shutdown"
    /\ effects[1].out = "ok"
    /\ result = "true"

\* C30: a Power whose payload is valid JSON issues the shutdown operation
\* not only when power_action is absent but also when it is a number, a
\* boolean, null, an array or an object, and when the payload is no object at
\* all; it fails without a platform call only when power_action is a string
\* outside the four recognized names.
C30_NonStringIsShutdown ==
    (Started /\ action = MXU_POWER_ACTION /\ ~faulted /\ ParsesAsJson(param)) =>
        /\ (param.kind # "obj" \/ Get(param, "power_action").t # "str") =>
              /\ Returned
              /\ Len(effects) = 1
              /\ effects[1].op = "shutdown"
              /\ result = "true" <=> effects[1].out = "ok"
        /\ PowerCalls = {} =>
              /\ Returned /\ result = "false" /\ NoSideEffect
              /\ param.kind = "obj"
              /\ Get(param, "power_action").t = "str"
              /\ OperationOf(Get(param, "power_action").s) = "none"
\* a Power whose power_action is an array issued the shutdown
C30_Witness ==
    /\ Returned
    /\ ~faulted
    /\ action = MXU_POWER_ACTION
    /\ Get(param, "power_action") = JArray
    /\ Len(effects) = 1
    /\ effects[1].op = "shutdown"

\* C28: a wait returns Interrupted exactly at a check at the top of a loop
\* iteration, made with time remaining, that reads the signal as set; after
\* the last sleep nothing is checked, so a wait whose signal was set only
\* after its last check, or was set all along with total = 0, returns
\* Completed, and a Sleep of 0 seconds returns true while the session is
\* stopping.
C28_InterruptedOnlyAtChecks ==
    /\ []((Returned /\ action \in WaitingActions /\ ~faulted
             /\ waitOutcome # "none") =>
            /\ waitOutcome = "Interrupted" =>
                  /\ stopping /\ ctxTasker = "tasker"
                  /\ Elapsed < total
                  /\ stopSetAt <= Elapsed
            /\ (stopping /\ total > 0 /\ stopSetAt > total - STEP) =>
                  waitOutcome = "Completed" /\ Elapsed = total
            /\ total = 0 => /\ waitOutcome = "Completed"
                            /\ result = "true"
                            /\ sleeps = 0)
    /\ [][(pc = "waiting" /\ pc' # pc /\ ~faulted') =>
            (waitOutcome' = "Interrupted"
               <=> (Elapsed < total /\ ctxTasker = "tasker" /\ stopping))]_vars
\* a Sleep of 0 seconds returned true while the session was stopping
C28_Witness ==
    /\ Returned
    /\ ~faulted
    /\ action = MXU_SLEEP_ACTION
    /\ Get(param, "sleep_time") = JNum(0)
    /\ ctxTasker = "tasker"
    /\ stopping
    /\ waitOutcome = "Completed"
    /\ result = "true"

\* C29: in a context whose tasker handle is null or cannot be turned into a
\* tasker, a wait is never interrupted: while it runs it has no outcome, and
\* when it returns it has run for all of total and returns Completed and
\* true, whatever the signal was.
C29_NoTaskerNoInterrupt ==
    (Started /\ action \in WaitingActions /\ ctxTasker # "tasker"
       /\ ~faulted) =>
        /\ waitOutcome # "Interrupted"
        /\ InWait => waitOutcome = "none"
        /\ (Returned /\ waitOutcome # "none") =>
              /\ waitOutcome = "Completed"
              /\ Elapsed = total
              /\ sleeps * STEP >= total
              /\ result = "true"
\* a wait with a null tasker handle ran its full second although the signal
\* was set before it began
C29_Witness ==
    /\ Returned
    /\ ~faulted
    /\ action \in WaitingActions
    /\ ctxTasker = "null"
    /\ stopping
    /\ stopSetAt = 0
    /\ total = MsPerSec
    /\ Elapsed = total
    /\ waitOutcome = "Completed"
    /\ result = "true"

\* C27: the VC++-runtime-missing flag is read-and-clear. Since the last
\* set_vcredist_missing, at most one check_vcredist_missing has read true; when
\* the last set stored true and at least one check followed, exactly one check
\* (the first) read true; when it stored false, or nothing was stored yet, none
\* did; and the flag still holds true exactly when true was stored and no check
\* has followed.
C27_ReadAndClear ==
    /\ vcHistory.trues <= 1
    /\ (vcHistory.lastSet = "true" /\ vcHistory.checks >= 1) => vcHistory.trues = 1
    /\ vcHistory.lastSet # "true" => vcHistory.trues = 0
    /\ VCREDIST_MISSING <=> (vcHistory.lastSet = "true" /\ vcHistory.checks = 0)

\* three checks raced after one store of true: one reads true, the others false
C27_Witness ==
    /\ vcHistory.lastSet = "true"
    /\ vcHistory.checks = 3
    /\ vcHistory.trues = 1
    /\ \A t \in Threads : vcHistory.at[t] = "swapped"
    /\ Cardinality({t \in Threads : vcHistory.missing[t]}) = 1
    /\ ~VCREDIST_MISSING

\* sleeps a full wait of `tot` ms takes: ceil(tot / STEP)
FullSleeps(tot) == (tot + STEP - 1) \div STEP

\* C21: with two sessions waiting in parallel, under every interleaving a wait
\* returns Interrupted only when its own session's stopping signal was set at
\* the check that ended it and before its time was up; a wait whose own signal
\* was clear at every check runs for exactly its own length in the full number
\* of sleeps, whatever the other session's signal did; a wait under way never
\* overruns its length.
C21_SessionsIndependent ==
    \A s \in Sessions :
        LET me == sessions[s]
        IN  /\ me.outcome = "Interrupted" =>
                /\ me.seen
                /\ me.ended - me.start < me.total
            /\ me.outcome = "Completed" =>
                /\ ~me.seen
                /\ me.ended - me.start = me.total
                /\ me.sleeps = FullSleeps(me.total)
            /\ me.pc \in {"waiting", "sleeping"} => clock - me.start <= me.total
            /\ me.pc = "returned" <=> me.outcome # "none"

\* A completed its whole second although B's signal was set, and interrupted
\* B's wait, while A's wait was under way
C21_Witness ==
    /\ sessions["A"].outcome = "Completed"
    /\ sessions["A"].total = MsPerSec
    /\ ~sessions["A"].stopping
    /\ sessions["B"].outcome = "Interrupted"
    /\ sessions["B"].stopping
    /\ sessions["A"].start < sessions["B"].ended
    /\ sessions["B"].ended < sessions["A"].ended

====
